---- MODULE Spec2Model ----
(***************************************************************************)
(* The auth service of veri-chain: the users table (models.py) and the     *)
(* three handlers of main.py -- signup, login, wallet_login -- run by      *)
(* concurrent callers, each handler split at its awaits on the store.      *)
(***************************************************************************)
EXTENDS Naturals, FiniteSets, TLC

VARIABLES users, nextId, clock, calls, ncalls, last

vars == <<users, nextId, clock, calls, ncalls, last>>

(***************************************************************************)
(* Values.  Null is Python's None / SQL NULL; Empty is the empty string.   *)
(***************************************************************************)
Null == "NULL"
Empty == ""

Clients == {"c1", "c2"}
Wallets == {"w1", "w2"}
Emails == {"e1", "e2"}
Passwords == {"p1", "p2"}

\* Number of handler invocations one behaviour makes.
MaxCalls == 3

\* models.py: reputation_score = Column(Integer, default=0)
DefaultReputation == 0

\* models.py: notif_type = Column(SAEnum(NotifType), default=NotifType.standard)
DefaultNotif == "standard"

NotifTypeValues == {"none", "important_only", "standard", "frequent"}

(***************************************************************************)
(* auth.py (get_password_hash, verify_password, create_access_token) is    *)
(* imported by main.py but not part of the sources at hand: modelled from  *)
(* the specification's Credential Hasher and Token Issuer.                 *)
(***************************************************************************)
get_password_hash(p) ==
    CASE p = "p1" -> "hash_p1"
      [] p = "p2" -> "hash_p2"
      [] OTHER -> "hash_other"

verify_password(p, h) == h # Null /\ h = get_password_hash(p)

create_access_token(sub) == [kind |-> "Token", access_token |-> [sub |-> sub],
                             token_type |-> "bearer"]

(***************************************************************************)
(* Request bodies (schemas.py).                                            *)
(***************************************************************************)
\* UserCreate as the caller sends it; wallet_address Null = the key is missing.
FullProfile ==
    [full_name |-> "n1", reddit_profile |-> "r1", x_profile |-> "x1",
     farcaster_profile |-> "f1", notif_type |-> "frequent", interests |-> "tech"]

BareProfile ==
    [full_name |-> Null, reddit_profile |-> Null, x_profile |-> Null,
     farcaster_profile |-> Null, notif_type |-> Null, interests |-> Null]

Profiles == {FullProfile, BareProfile}

UserCreate(w, e, p, prof) ==
    [wallet_address |-> w, email |-> e, password |-> p,
     full_name |-> prof.full_name, reddit_profile |-> prof.reddit_profile,
     x_profile |-> prof.x_profile, farcaster_profile |-> prof.farcaster_profile,
     notif_type |-> prof.notif_type, interests |-> prof.interests]

\* Every request names someone: by wallet address, by email, or by both.
SignupRequests ==
    {UserCreate(w, e, p, prof) :
        w \in Wallets \cup {Null}, e \in {Null, "e1"},
        p \in Passwords, prof \in Profiles} \
    {UserCreate(Null, Null, p, prof) : p \in Passwords, prof \in Profiles}

UserLogin == [email : Emails, password : Passwords]

OptionalWalletFields ==
    {"email", "name", "displayName", "redditHandle", "xHandle", "interests"}

WalletLoginAll ==
    [walletAddress : Wallets,
     email : Emails \cup {Null},
     name : {Null, Empty, "n1"},
     displayName : {Null, Empty, "n2"},
     redditHandle : {Null, Empty, "r1"},
     xHandle : {Null, Empty, "x1"},
     interests : {Null, "tech_list"}]

Supplied(data) == {f \in OptionalWalletFields : data[f] # Null}

\* Bodies that carry at most one optional field, or the two name fields, the
\* only two that wallet_login combines (data.name or data.displayName).
WalletLoginBodies ==
    {d \in WalletLoginAll :
        \/ Cardinality(Supplied(d)) <= 1
        \/ Supplied(d) = {"name", "displayName"}}

\* The bodies of the wallet-login runs: every body for w1; for w2, the ones
\* that make and keep a second record.
WalletLogin ==
    {d \in WalletLoginBodies :
        d.walletAddress = "w2" => Supplied(d) \subseteq {"email"} /\ d.email # "e2"}

\* The bodies of the identity runs: no field, an email, or a reddit handle.
WalletLoginIdentity ==
    {d \in WalletLoginBodies : Supplied(d) \subseteq {"email", "redditHandle"}
                         /\ d.email # "e2" /\ d.redditHandle # Empty}

\* The register and login requests of the wallet-login runs.
WalletRunSignups == {UserCreate("w1", "e1", "p1", FullProfile)}

WalletRunLogins == {[email |-> "e1", password |-> "p1"]}

\* Python truthiness of an Optional[str]: None and "" are falsy.
Truthy(v) == v # Null /\ v # Empty

\* Python's `a or b`.
PyOr(a, b) == IF Truthy(a) THEN a ELSE b

(***************************************************************************)
(* Responses.                                                              *)
(***************************************************************************)
\* schemas.py UserResponse: UserBase plus id, reputation_score, timestamps.
UserResponse(u) ==
    [kind |-> "User", id |-> u.id, wallet_address |-> u.wallet_address,
     email |-> u.email, full_name |-> u.full_name,
     reddit_profile |-> u.reddit_profile, x_profile |-> u.x_profile,
     farcaster_profile |-> u.farcaster_profile, notif_type |-> u.notif_type,
     interests |-> u.interests, reputation_score |-> u.reputation_score,
     created_at |-> u.created_at, updated_at |-> u.updated_at]

\* FastAPI's answer to a body that fails the pydantic schema.
ValidationError(loc) == [kind |-> "ValidationError", status |-> 422, loc |-> loc]

DuplicateIdentity ==
    [kind |-> "HTTPException", status |-> 400,
     detail |-> "User with this wallet or email already exists"]

InvalidCredentials ==
    [kind |-> "HTTPException", status |-> 401,
     detail |-> "Incorrect email or password"]

\* global_exception_handler: any other exception becomes a 500 carrying str(exc).
global_exception_handler(exc) ==
    [kind |-> "UnhandledException", status |-> 500, detail |-> exc]

\* The columns of users that hold text.
StringColumns ==
    {"wallet_address", "full_name", "email", "reddit_profile", "x_profile",
     "farcaster_profile", "notif_type", "interests", "password_hash"}

\* str() of the ValueError that NotifType(...) raises: no statement behind it.
ValueError ==
    [message |-> "ValueError: not a valid NotifType", parameters |-> {}]

\* str() of the IntegrityError that the INSERT of row raises: the store's
\* message, followed by the statement and the values bound to it (the engine
\* of database.py does not hide parameters).
IntegrityError(row) ==
    [message |-> "IntegrityError: duplicate key value violates unique constraint users_wallet_address_key",
     parameters |-> {row[f] : f \in StringColumns}]

(***************************************************************************)
(* The users table.                                                        *)
(***************************************************************************)
\* SQL `col = :v`, with SQLAlchemy's rendering of `col == None` as IS NULL.
ColumnEq(col, v) == col = v

ByWallet(w) == {u \in users : ColumnEq(u.wallet_address, w)}

ByEmail(e) == {u \in users : ColumnEq(u.email, e)}

ById(id) == CHOOSE u \in users : u.id = id

NoUniqueViolation(w) == FALSE

\* wallet_address = Column(String, unique=True, nullable=False)
UniqueViolation(w) == \E u \in users : u.wallet_address = w

User(id, w, e, fullName, reddit, x, farcaster, notif, interests, hash) ==
    [id |-> id, wallet_address |-> w, full_name |-> fullName, email |-> e,
     reddit_profile |-> reddit, x_profile |-> x, farcaster_profile |-> farcaster,
     notif_type |-> notif, interests |-> interests,
     reputation_score |-> DefaultReputation,
     created_at |-> clock, updated_at |-> clock, password_hash |-> hash]

\* result.scalars().first() on an empty result (Python's None).
NoRow == [id |-> 0]

\* No register has just answered.
NoRegister == [email |-> Null, password |-> Null]

Idle == [pc |-> "idle"]

Done(op, req, resp) == [pc |-> "done", op |-> op, req |-> req, resp |-> resp]

Free(c) == calls[c].pc \in {"idle", "done"} /\ ncalls < MaxCalls

Init ==
    /\ users = {}
    /\ nextId = 1
    /\ clock = 1
    /\ calls = [c \in Clients |-> Idle]
    /\ ncalls = 0
    /\ last = NoRegister

(***************************************************************************)
(* POST /auth/signup (main.py signup).                                     *)
(***************************************************************************)
\* The existence check: wallet_address == :w OR email == :e.
signup_exists(user) ==
    {u \in users : \/ ColumnEq(u.wallet_address, user.wallet_address)
                   \/ ColumnEq(u.email, user.email)}

\* NotifType(user.notif_type) if user.notif_type else NotifType.standard
signup_notif(v) == IF Truthy(v) THEN v ELSE DefaultNotif

\* The User that signup constructs from the request.
signup_user(id, user) ==
    User(id, user.wallet_address, user.email, user.full_name,
         user.reddit_profile, user.x_profile, user.farcaster_profile,
         signup_notif(user.notif_type), user.interests,
         get_password_hash(user.password))

\* A conflict handled as an upsert, replacing the Users found: not what
\* main.py:54-55 does.
signup_conflict_replacing(c, user) ==
    /\ users' = (users \ signup_exists(user)) \cup {signup_user(nextId, user)}
    /\ nextId' = nextId + 1
    /\ clock' = clock + 1
    /\ calls' = [calls EXCEPT ![c] = Done("signup", user, DuplicateIdentity)]

\* The response of a signup whose existence check found a row.
signup_conflict(c, user) ==
    /\ calls' = [calls EXCEPT ![c] = Done("signup", user, DuplicateIdentity)]
    /\ UNCHANGED <<users, nextId, clock>>

\* Body validation, the existence check, and the construction of the User,
\* up to the await on db.commit().
signup(c, user) ==
    /\ Free(c)
    /\ ncalls' = ncalls + 1
    /\ last' = NoRegister
    /\ IF user.wallet_address = Null
       THEN /\ calls' = [calls EXCEPT ![c] =
                            Done("signup", user, ValidationError("wallet_address"))]
            /\ UNCHANGED <<users, nextId, clock>>
       ELSE IF signup_exists(user) # {}
       THEN signup_conflict(c, user)
       ELSE IF Truthy(user.notif_type) /\ user.notif_type \notin NotifTypeValues
       THEN /\ calls' = [calls EXCEPT ![c] =
                            Done("signup", user, global_exception_handler(ValueError))]
            /\ UNCHANGED <<users, nextId, clock>>
       ELSE /\ calls' = [calls EXCEPT ![c] =
                            [pc |-> "signup_commit", op |-> "signup", req |-> user]]
            /\ UNCHANGED <<users, nextId, clock>>

\* await db.commit(): the INSERT and the transaction's commit.
signup_commit(c) ==
    /\ calls[c].pc = "signup_commit"
    /\ LET user == calls[c].req IN
       /\ nextId' = nextId + 1
       /\ IF UniqueViolation(user.wallet_address)
          THEN /\ calls' = [calls EXCEPT ![c] =
                    Done("signup", user,
                         global_exception_handler(
                             IntegrityError(signup_user(nextId, user))))]
               /\ UNCHANGED <<users, clock>>
          ELSE /\ users' = users \cup {signup_user(nextId, user)}
               /\ clock' = clock + 1
               /\ calls' = [calls EXCEPT ![c] =
                    [pc |-> "signup_refresh", op |-> "signup", req |-> user,
                     id |-> nextId]]
    /\ last' = NoRegister
    /\ UNCHANGED ncalls

\* A register that signs its caller in: not what main.py:72 does.
signup_refresh_with_token(c) ==
    /\ calls[c].pc = "signup_refresh"
    /\ calls' = [calls EXCEPT ![c] =
                    Done("signup", calls[c].req,
                         create_access_token(calls[c].req.email))]
    /\ last' = [email |-> calls[c].req.email, password |-> calls[c].req.password]
    /\ UNCHANGED <<users, nextId, clock, ncalls>>

\* await db.refresh(db_user); return db_user.
signup_refresh(c) ==
    /\ calls[c].pc = "signup_refresh"
    /\ calls' = [calls EXCEPT ![c] =
            Done("signup", calls[c].req, UserResponse(ById(calls[c].id)))]
    /\ last' = [email |-> calls[c].req.email, password |-> calls[c].req.password]
    /\ UNCHANGED <<users, nextId, clock, ncalls>>

(***************************************************************************)
(* POST /auth/login (main.py login).                                       *)
(***************************************************************************)
login_response_enumerating(user, user_credentials) ==
    IF user = NoRow
    THEN [kind |-> "HTTPException", status |-> 401, detail |-> "Unknown email"]
    ELSE IF ~verify_password(user_credentials.password, user.password_hash)
    THEN InvalidCredentials
    ELSE create_access_token(user.email)

\* The response once result.scalars().first() has returned `user` (NoRow: no row).
login_response(user, user_credentials) ==
    IF user = NoRow \/ ~verify_password(user_credentials.password, user.password_hash)
    THEN InvalidCredentials
    ELSE create_access_token(user.email)

\* Without ORDER BY the store may return the matching rows in any order.
login(c, user_credentials) ==
    /\ Free(c)
    /\ ncalls' = ncalls + 1
    /\ last' = NoRegister
    /\ \E user \in ByEmail(user_credentials.email) \cup {NoRow} :
          /\ user = NoRow <=> ByEmail(user_credentials.email) = {}
          /\ calls' = [calls EXCEPT ![c] =
                Done("login", user_credentials, login_response(user, user_credentials))]
    /\ UNCHANGED <<users, nextId, clock>>

(***************************************************************************)
(* POST /auth/wallet-login (main.py wallet_login).                         *)
(***************************************************************************)
\* The lookup by wallet address; the session keeps the row it loaded.
wallet_login(c, data) ==
    /\ Free(c)
    /\ ncalls' = ncalls + 1
    /\ last' = NoRegister
    /\ \E user \in ByWallet(data.walletAddress) \cup {NoRow} :
          /\ user = NoRow <=> ByWallet(data.walletAddress) = {}
          /\ calls' = [calls EXCEPT ![c] =
                [pc |-> "wallet_commit", op |-> "wallet_login", req |-> data,
                 user |-> user]]
    /\ UNCHANGED <<users, nextId, clock>>

\* A seeding that leaves the address out: not what main.py:98 does.
wallet_user_without_address(id, data) ==
    User(id, Null, data.email, PyOr(data.name, data.displayName),
         data.redditHandle, data.xHandle, Null, DefaultNotif, Null, Null)

\* A seeding that prefers displayName: not what main.py:100 does.
wallet_user_display_first(id, data) ==
    User(id, data.walletAddress, data.email, PyOr(data.displayName, data.name),
         data.redditHandle, data.xHandle, Null, DefaultNotif, Null, Null)

\* The User that wallet_login constructs for an unseen address.
wallet_user(id, data) ==
    User(id, data.walletAddress, data.email, PyOr(data.name, data.displayName),
         data.redditHandle, data.xHandle, Null, DefaultNotif, Null, Null)

\* A merge that also resets the password: not what main.py:108-112 does.
wallet_assign_resetting(user, data) ==
    [user EXCEPT
        !.email = IF Truthy(data.email) THEN data.email ELSE @,
        !.full_name = IF Truthy(data.name) THEN data.name ELSE @,
        !.reddit_profile = IF Truthy(data.redditHandle) THEN data.redditHandle ELSE @,
        !.x_profile = IF Truthy(data.xHandle) THEN data.xHandle ELSE @,
        !.password_hash = Null]

wallet_assign_clearing(user, data) ==
    [user EXCEPT
        !.email = data.email,
        !.full_name = IF Truthy(data.name) THEN data.name ELSE @,
        !.reddit_profile = data.redditHandle,
        !.x_profile = IF Truthy(data.xHandle) THEN data.xHandle ELSE @]

\* The attribute assignments of the else branch, applied to the loaded row.
wallet_assign(user, data) ==
    [user EXCEPT
        !.email = IF Truthy(data.email) THEN data.email ELSE @,
        !.full_name = IF Truthy(data.name) THEN data.name ELSE @,
        !.reddit_profile = IF Truthy(data.redditHandle) THEN data.redditHandle ELSE @,
        !.x_profile = IF Truthy(data.xHandle) THEN data.xHandle ELSE @]

flush_update_always(loaded, assigned) ==
    LET row == ById(loaded.id)
        written == [f \in DOMAIN row |->
                       IF f = "updated_at" THEN clock
                       ELSE IF f \in {"email", "full_name", "reddit_profile",
                                      "x_profile"} THEN assigned[f]
                       ELSE row[f]]
    IN  /\ users' = (users \ {row}) \cup {written}
        /\ clock' = clock + 1

\* The unit of work flushes an UPDATE of the columns whose value changed
\* against the loaded row; updated_at has onupdate=func.now().
flush_update(loaded, assigned) ==
    LET changed == {f \in DOMAIN loaded : assigned[f] # loaded[f]}
        row == ById(loaded.id)
        written == [f \in DOMAIN row |->
                       IF f \in changed THEN assigned[f]
                       ELSE IF f = "updated_at" THEN clock
                       ELSE row[f]]
    IN  IF changed = {}
        THEN UNCHANGED <<users, clock>>
        ELSE /\ users' = (users \ {row}) \cup {written}
             /\ clock' = clock + 1

\* await db.commit() of either branch.
wallet_commit(c) ==
    /\ calls[c].pc = "wallet_commit"
    /\ LET data == calls[c].req
           user == calls[c].user
       IN  IF user = NoRow
           THEN /\ nextId' = nextId + 1
                /\ IF UniqueViolation(data.walletAddress)
                   THEN /\ calls' = [calls EXCEPT ![c] =
                             Done("wallet_login", data,
                                  global_exception_handler(
                                      IntegrityError(wallet_user(nextId, data))))]
                        /\ UNCHANGED <<users, clock>>
                   ELSE /\ users' = users \cup {wallet_user(nextId, data)}
                        /\ clock' = clock + 1
                        /\ calls' = [calls EXCEPT ![c] =
                             [pc |-> "wallet_refresh", op |-> "wallet_login",
                              req |-> data, id |-> nextId, created |-> TRUE]]
           ELSE /\ flush_update(user, wallet_assign(user, data))
                /\ calls' = [calls EXCEPT ![c] =
                     [pc |-> "wallet_refresh", op |-> "wallet_login",
                      req |-> data, id |-> user.id, created |-> FALSE]]
                /\ UNCHANGED nextId
    /\ last' = NoRegister
    /\ UNCHANGED ncalls

\* await db.refresh(user); return user.
wallet_refresh(c) ==
    /\ calls[c].pc = "wallet_refresh"
    /\ calls' = [calls EXCEPT ![c] =
            Done("wallet_login", calls[c].req, UserResponse(ById(calls[c].id)))]
    /\ last' = NoRegister
    /\ UNCHANGED <<users, nextId, clock, ncalls>>

(***************************************************************************)
(* GET /test/db-users (main.py test_list_users).                           *)
(***************************************************************************)
\* One entry of user_list.
user_list_entry(user) ==
    [id |-> user.id, email |-> user.email, full_name |-> user.full_name,
     wallet_address |-> user.wallet_address,
     reddit_profile |-> user.reddit_profile, x_profile |-> user.x_profile,
     created_at |-> user.created_at, notif_type |-> user.notif_type,
     interests |-> user.interests]

\* select(User), then one entry per row.
test_list_users(c) ==
    /\ Free(c)
    /\ ncalls' = ncalls + 1
    /\ last' = NoRegister
    /\ calls' = [calls EXCEPT ![c] =
                    Done("test_list_users", Null,
                         [kind |-> "UserList", status |-> "success",
                          total_users |-> Cardinality(users),
                          users |-> {user_list_entry(user) : user \in users}])]
    /\ UNCHANGED <<users, nextId, clock>>

Next ==
    \E c \in Clients :
        \/ \E user \in SignupRequests : signup(c, user)
        \/ signup_commit(c)
        \/ signup_refresh(c)
        \/ \E user_credentials \in UserLogin : login(c, user_credentials)
        \/ \E data \in WalletLoginIdentity : wallet_login(c, data)
        \/ wallet_commit(c)
        \/ wallet_refresh(c)

Spec == Init /\ [][Next]_vars

\* The same handlers, driven by every wallet-login body of WalletLogin, and
\* the listing of the users table.
WalletNext ==
    \E c \in Clients :
        \/ \E user \in WalletRunSignups : signup(c, user)
        \/ signup_commit(c)
        \/ signup_refresh(c)
        \/ \E user_credentials \in WalletRunLogins : login(c, user_credentials)
        \/ \E data \in WalletLogin : wallet_login(c, data)
        \/ wallet_commit(c)
        \/ wallet_refresh(c)
        \/ test_list_users(c)

WalletSpec == Init /\ [][WalletNext]_vars

(***************************************************************************)
(* Properties.                                                             *)
(***************************************************************************)
\* A register request names the identity of u: the same wallet address, or
\* the same email when the request carries one.
SameIdentity(u, user) ==
    \/ u.wallet_address = user.wallet_address
    \/ user.email # Null /\ u.email = user.email

Matching(user) == {u \in users : SameIdentity(u, user)}

Finished(c, op) == calls[c].pc = "done" /\ calls[c].op = op

\* C1: in every reachable state the store holds at most one User per wallet
\* address, whatever register and wallet-login calls ran and however their
\* steps interleaved.
C1_OneUserPerWallet ==
    \A u1 \in users : \A u2 \in users :
        u1.wallet_address = u2.wallet_address => u1 = u2

\* Two callers raced a wallet-login for the same unseen address: one made the
\* record, the other's insert was refused by the store.
C1_Witness ==
    \E c \in Clients : \E d \in Clients :
        /\ c # d
        /\ Finished(c, "wallet_login") /\ Finished(d, "wallet_login")
        /\ calls[c].req.walletAddress = calls[d].req.walletAddress
        /\ calls[c].resp.kind = "UnhandledException"
        /\ calls[d].resp.kind = "User"
        /\ Cardinality(ByWallet(calls[c].req.walletAddress)) = 1

\* C2: in every reachable state the store holds at most one User per
\* non-null email.
C2_OneUserPerEmail ==
    \A u1 \in users : \A u2 \in users :
        (u1.email # Null /\ u1.email = u2.email) => u1 = u2

\* C3: a register call whose email or wallet address matches an existing User
\* answers DuplicateIdentity and leaves the store unchanged.
C3_DuplicateRegisterRejected ==
    [][\A c \in Clients : \A user \in SignupRequests :
          (signup(c, user) /\ Matching(user) # {})
              => /\ calls'[c].pc = "done"
                 /\ calls'[c].resp = DuplicateIdentity
                 /\ users' = users]_vars

\* C4: every wallet-login call answers with a User view, never with an error.
C4_WalletLoginNeverFails ==
    \A c \in Clients :
        Finished(c, "wallet_login") => calls[c].resp.kind = "User"

\* C5: a login with the email and password of the register that has just
\* answered with the created User returns a bearer token whose subject is
\* that email.
C5_LoginAfterRegister ==
    [][\A c \in Clients : \A user_credentials \in UserLogin :
          (login(c, user_credentials) /\ last = user_credentials)
              => calls'[c].resp = create_access_token(user_credentials.email)]_vars

\* C6: a login for an email no User has, and a login for an email whose
\* Users all fail the password check, get the one InvalidCredentials answer;
\* every login answer that is not that answer is a token of a User whose
\* password verified.
C6_UniformInvalidCredentials ==
    [][\A c \in Clients : \A user_credentials \in UserLogin :
          login(c, user_credentials) =>
            LET resp == calls'[c].resp
                verified == {u \in ByEmail(user_credentials.email) :
                    verify_password(user_credentials.password, u.password_hash)}
            IN  /\ verified = {} => resp = InvalidCredentials
                /\ resp # InvalidCredentials =>
                      /\ resp.kind = "Token"
                      /\ verified # {}]_vars

\* Both failing cases have been answered: an unknown email by one caller, a
\* known email with a wrong password by the other.
C6_Witness ==
    \E c \in Clients : \E d \in Clients :
        /\ Finished(c, "login") /\ Finished(d, "login")
        /\ ByEmail(calls[c].req.email) = {}
        /\ \E u \in ByEmail(calls[d].req.email) :
              u.password_hash # Null
              /\ ~verify_password(calls[d].req.password, u.password_hash)
        /\ calls[c].resp = calls[d].resp
        /\ calls[c].resp = InvalidCredentials

\* C7: a register call that matches no existing User is accepted, its insert
\* adds exactly one User carrying every supplied field and the hash of the
\* supplied password, and the call returns that record's view.
C7_RegisterCreatesUser ==
    [][\A c \in Clients :
          /\ \A user \in SignupRequests :
                (signup(c, user) /\ Matching(user) = {})
                    => calls'[c].pc = "signup_commit"
          /\ (signup_commit(c) /\ Matching(calls[c].req) = {})
                => \E u \in users' :
                      /\ users' = users \cup {u}
                      /\ u \notin users
                      /\ \A f \in {"wallet_address", "email", "full_name",
                                   "reddit_profile", "x_profile",
                                   "farcaster_profile", "interests"} :
                            u[f] = calls[c].req[f]
                      /\ calls[c].req.notif_type # Null
                            => u.notif_type = calls[c].req.notif_type
                      /\ u.password_hash = get_password_hash(calls[c].req.password)
          /\ signup_refresh(c)
                => /\ calls'[c].resp.kind = "User"
                   /\ calls'[c].resp.id = calls[c].id
                   /\ calls'[c].resp = UserResponse(ById(calls[c].id))]_vars

\* C8: a register call that carries an email and a password but no wallet
\* address is never rejected for the missing wallet address.
C8_RegisterWithoutWallet ==
    \A c \in Clients :
        (/\ Finished(c, "signup")
         /\ calls[c].req.wallet_address = Null
         /\ calls[c].req.email # Null)
            => calls[c].resp.kind # "ValidationError"

RowOf(rows, id) == CHOOSE u \in rows : u.id = id

\* C9: a wallet-login for an unseen address W leaves exactly one User with
\* walletAddress = W (its insert adds that one record when W is still unseen),
\* and a wallet-login without optional fields for an address that has a User
\* changes nothing in the store and returns that User's id.
C9_WalletLoginCreatesOnceThenIdempotent ==
    [][\A c \in Clients :
          /\ (wallet_commit(c) /\ calls[c].user = NoRow) =>
                LET W == calls[c].req.walletAddress
                    made == {u \in users' : u.wallet_address = W}
                IN  /\ Cardinality(made) = 1
                    /\ ByWallet(W) = {} =>
                          /\ users' = users \cup made
                          /\ \E u \in made : u \notin users /\ calls'[c].id = u.id
          /\ (wallet_commit(c) /\ calls[c].user # NoRow
                               /\ Supplied(calls[c].req) = {}) =>
                /\ users' = users
                /\ calls'[c].id = calls[c].user.id
          /\ (wallet_refresh(c) /\ ~calls[c].created
                                /\ Supplied(calls[c].req) = {}) =>
                /\ calls'[c].resp.kind = "User"
                /\ \E u \in ByWallet(calls[c].req.walletAddress) :
                      calls'[c].resp = UserResponse(u)]_vars

\* One caller's wallet-login made the record for W with a name; the other's
\* later wallet-login for W without fields got the same view back.
C9_Witness ==
    \E c \in Clients : \E d \in Clients :
        /\ c # d /\ ncalls = 2 /\ Cardinality(users) = 1
        /\ Finished(c, "wallet_login") /\ Finished(d, "wallet_login")
        /\ calls[c].req.walletAddress = calls[d].req.walletAddress
        /\ Supplied(calls[d].req) = {"name"} /\ calls[d].req.name = "n1"
        /\ Supplied(calls[c].req) = {}
        /\ calls[c].resp.kind = "User"
        /\ calls[c].resp = calls[d].resp
        /\ calls[c].resp.full_name = "n1"
        /\ calls[c].resp.updated_at = calls[c].resp.created_at

\* C10: in a wallet-login for an existing address, an optional field that is
\* omitted or empty leaves its User column as the store holds it.
C10_OmittedFieldsUntouched ==
    [][\A c \in Clients :
          (wallet_commit(c) /\ calls[c].user # NoRow) =>
              LET data == calls[c].req
                  before == ById(calls[c].user.id)
                  after == RowOf(users', calls[c].user.id)
              IN  /\ ~Truthy(data.email) => after.email = before.email
                  /\ (~Truthy(data.name) /\ ~Truthy(data.displayName))
                        => after.full_name = before.full_name
                  /\ ~Truthy(data.redditHandle)
                        => after.reddit_profile = before.reddit_profile
                  /\ ~Truthy(data.xHandle) => after.x_profile = before.x_profile
                  /\ data.interests = Null => after.interests = before.interests]_vars

\* A registered User with a name and handles had only its email replaced by a
\* wallet-login, and an empty name left the stored name by another.
C10_Witness ==
    \E c \in Clients : \E d \in Clients :
        /\ c # d
        /\ calls[c].pc = "wallet_refresh" /\ ~calls[c].created
        /\ Supplied(calls[c].req) = {"email"} /\ calls[c].req.email = "e2"
        /\ Finished(d, "wallet_login")
        /\ Supplied(calls[d].req) = {"name"} /\ calls[d].req.name = Empty
        /\ calls[d].req.walletAddress = calls[c].req.walletAddress
        /\ calls[d].resp.kind = "User" /\ calls[d].resp.email = "e1"
        /\ LET u == ById(calls[c].id)
           IN  /\ u.email = "e2"
               /\ u.full_name = "n1"
               /\ u.reddit_profile = "r1"
               /\ u.x_profile = "x1"
               /\ u.interests = "tech"
               /\ u.updated_at > u.created_at

\* C11: in a wallet-login for an existing address, every optional field that
\* is supplied and non-empty (email, name, displayName, redditHandle, xHandle,
\* interests) overwrites its User column, displayName without name and
\* interests included.
C11_SuppliedFieldsOverwrite ==
    [][\A c \in Clients :
          (wallet_commit(c) /\ calls[c].user # NoRow) =>
              LET data == calls[c].req
                  after == RowOf(users', calls[c].user.id)
              IN  /\ Truthy(data.email) => after.email = data.email
                  /\ Truthy(data.name) => after.full_name = data.name
                  /\ (Truthy(data.displayName) /\ ~Truthy(data.name))
                        => after.full_name = data.displayName
                  /\ Truthy(data.redditHandle)
                        => after.reddit_profile = data.redditHandle
                  /\ Truthy(data.xHandle) => after.x_profile = data.xHandle
                  /\ data.interests # Null => after.interests = data.interests]_vars

\* C12: a register that passed the existence check and finds, at its commit,
\* that another register has taken its wallet address or its email creates
\* nothing and is answered DuplicateIdentity, never a raw constraint violation.
C12_RacingRegisterIsDuplicate ==
    [][\A c \in Clients :
          (signup_commit(c) /\ Matching(calls[c].req) # {}) =>
              /\ users' = users
              /\ calls'[c].pc = "done"
              /\ calls'[c].resp = DuplicateIdentity]_vars

\* C13: the User that a wallet-login creates for an unseen address has
\* full_name = the supplied name when that is non-empty, and the supplied
\* displayName otherwise; name wins when both are supplied.
C13_NameBeforeDisplayName ==
    [][\A c \in Clients :
          (wallet_commit(c) /\ calls[c].user = NoRow /\ users' # users) =>
              LET data == calls[c].req
                  made == users' \ users
              IN  /\ Cardinality(made) = 1
                  /\ \A u \in made :
                        /\ u.wallet_address = data.walletAddress
                        /\ u.full_name = IF Truthy(data.name) THEN data.name
                                         ELSE data.displayName]_vars

\* A wallet-login carrying both a name and a displayName has just created its
\* User, whose full_name is the name.
C13_Witness ==
    \E c \in Clients :
        /\ calls[c].pc = "wallet_refresh" /\ calls[c].created
        /\ calls[c].req.name = "n1" /\ calls[c].req.displayName = "n2"
        /\ ById(calls[c].id).full_name = "n1"
        /\ ById(calls[c].id).wallet_address = calls[c].req.walletAddress

Ids(rows) == {u.id : u \in rows}

\* C14: no step of register, login or wallet-login removes a user id, and a
\* step that adds one is the commit of a register that then succeeds or the
\* commit of a wallet-login that found no User for its address; every other
\* step (login, a failed register, a wallet-login for an existing address)
\* creates nothing.
C14_UsersOnlyGrow ==
    [][/\ Ids(users) \subseteq Ids(users')
       /\ Ids(users') # Ids(users) =>
             /\ Cardinality(Ids(users') \ Ids(users)) = 1
             /\ \E c \in Clients :
                   \/ /\ signup_commit(c)
                      /\ calls'[c].pc = "signup_refresh"
                   \/ /\ wallet_commit(c)
                      /\ calls[c].user = NoRow
                      /\ ByWallet(calls[c].req.walletAddress) = {}]_vars

\* One User came from a register and one from a wallet-login; a further
\* register was turned down, and both Users are there.
C14_Witness ==
    /\ Cardinality(Ids(users)) = 2
    /\ \E u \in users : u.password_hash # Null
    /\ \E u \in users : u.password_hash = Null
    /\ \E c \in Clients :
          /\ Finished(c, "signup")
          /\ calls[c].resp = DuplicateIdentity

\* C15: only a login answers with a session token; the answer of a register
\* and of a wallet-login, whether it created, updated or failed, is a User
\* view or an error.
C15_TokenOnlyFromLogin ==
    \A c \in Clients :
        calls[c].pc = "done" =>
            /\ calls[c].resp.kind = "Token" => calls[c].op = "login"
            /\ calls[c].op \in {"signup", "wallet_login"} =>
                  /\ "access_token" \notin DOMAIN calls[c].resp
                  /\ calls[c].resp.kind \in {"User", "HTTPException",
                                             "ValidationError",
                                             "UnhandledException"}

\* A register and a wallet-login have both succeeded, each answered with a
\* User view.
C15_Witness ==
    \E c \in Clients : \E d \in Clients :
        /\ Finished(c, "signup") /\ calls[c].resp.kind = "User"
        /\ Finished(d, "wallet_login") /\ calls[d].resp.kind = "User"
        /\ calls[c].resp.id # calls[d].resp.id

\* The password hashes the service computes.
PasswordHashes == {get_password_hash(p) : p \in Passwords}

\* A response body that carries a password hash: as a field of a User view or
\* of a listed entry, or inside the text of an error.
Exposes(resp) ==
    \/ "password_hash" \in DOMAIN resp
    \/ /\ resp.kind = "UserList"
       /\ \E entry \in resp.users : "password_hash" \in DOMAIN entry
    \/ /\ resp.kind = "UnhandledException"
       /\ resp.detail.parameters \cap PasswordHashes # {}

\* C16: no response of register, login, wallet-login or the user listing
\* contains a User's password hash.
C16_NoPasswordHashInResponse ==
    \A c \in Clients : calls[c].pc = "done" => ~Exposes(calls[c].resp)

\* C17: every stored User has an email or a wallet address (not both null),
\* whichever handler created it and whatever wallet-logins merged into it.
C17_EmailOrWalletSet ==
    \A u \in users : u.email # Null \/ u.wallet_address # Null

\* A wallet-login without email created one User, known by its address alone;
\* another User, created the same way, has since had an email merged in.
C17_Witness ==
    \E u \in users : \E v \in users :
        /\ u.email = Null /\ u.wallet_address # Null /\ u.password_hash = Null
        /\ v.id # u.id /\ v.password_hash = Null
        /\ v.email # Null /\ v.updated_at > v.created_at

\* C18: a wallet-login for an existing address leaves that User's id,
\* wallet_address, created_at and password_hash as they were, and leaves every
\* other User as it was.
C18_WalletLoginFrame ==
    [][\A c \in Clients :
          /\ (wallet_commit(c) /\ calls[c].user # NoRow) =>
                LET before == ById(calls[c].user.id)
                    same == {u \in users' : u.id = before.id}
                IN  /\ Cardinality(same) = 1
                    /\ \A after \in same :
                          /\ after.wallet_address = before.wallet_address
                          /\ after.created_at = before.created_at
                          /\ after.password_hash = before.password_hash
                    /\ users' \ same = users \ {before}
          /\ (wallet_refresh(c) /\ ~calls[c].created) => users' = users]_vars

\* A registered User and a second User exist; a wallet-login for the first
\* one's address has just replaced its email, and its password hash, its
\* creation time and the second User are as before.
C18_Witness ==
    \E c \in Clients :
        /\ calls[c].pc = "wallet_refresh" /\ ~calls[c].created
        /\ calls[c].req.email = "e2"
        /\ Cardinality(users) = 2
        /\ LET u == ById(calls[c].id)
           IN  /\ u.wallet_address = calls[c].req.walletAddress
               /\ u.email = "e2"
               /\ u.password_hash = get_password_hash("p1")
               /\ u.updated_at > u.created_at
               /\ \E v \in users : v.id # u.id /\ v.updated_at = v.created_at

\* C19: while a registered User holds email e and the hash of password p, a
\* login with (e, p) is answered with a token, whatever Users wallet-logins
\* for other addresses have created or changed in the meantime.
C19_LoginSurvivesWalletLogins ==
    [][\A c \in Clients : \A user_credentials \in UserLogin :
          (/\ login(c, user_credentials)
           /\ \E u \in users :
                 /\ u.email = user_credentials.email
                 /\ verify_password(user_credentials.password, u.password_hash)
           /\ \A u \in users :
                 u.password_hash # Null =>
                     \/ u.email # user_credentials.email
                     \/ verify_password(user_credentials.password, u.password_hash))
              => calls'[c].resp = create_access_token(user_credentials.email)]_vars

\* C20: a register is answered DuplicateIdentity only if some User has the
\* request's wallet address or the request's (non-null) email; Users whose
\* email is null do not stand in the way of a register without email.
C20_DuplicateOnlyOnMatch ==
    [][\A c \in Clients : \A user \in SignupRequests :
          (signup(c, user) /\ calls'[c].pc = "done"
                           /\ calls'[c].resp = DuplicateIdentity)
              => Matching(user) # {}]_vars

\* The User column that an optional field of a wallet-login body stands for.
ColumnOf(f) ==
    CASE f = "email" -> "email"
      [] f = "name" -> "full_name"
      [] f = "displayName" -> "full_name"
      [] f = "redditHandle" -> "reddit_profile"
      [] f = "xHandle" -> "x_profile"
      [] f = "interests" -> "interests"

NonEmpty(data) == {f \in Supplied(data) : Truthy(data[f])}

\* The wallet-login of c found a User and has committed its update.
Merged(c) ==
    /\ calls[c].pc \in {"wallet_refresh", "done"}
    /\ calls[c].op = "wallet_login"
    /\ IF calls[c].pc = "done" THEN calls[c].resp.kind = "User"
                               ELSE ~calls[c].created

\* C21: when two wallet-logins for the address of a registered User supply
\* non-empty fields of different columns, then once both have committed, in
\* whatever order their lookups and commits ran, the User holds every value
\* either call supplied.
C21_ConcurrentMergesBothApplied ==
    \A c \in Clients : \A d \in Clients :
        (/\ c # d /\ ncalls = 3
         /\ Merged(c) /\ Merged(d)
         /\ calls[c].req.walletAddress = calls[d].req.walletAddress
         /\ \E u \in ByWallet(calls[c].req.walletAddress) : u.password_hash # Null
         /\ NonEmpty(calls[c].req) # {} /\ NonEmpty(calls[d].req) # {}
         /\ {ColumnOf(f) : f \in NonEmpty(calls[c].req)}
               \cap {ColumnOf(f) : f \in NonEmpty(calls[d].req)} = {})
            => \A u \in ByWallet(calls[c].req.walletAddress) :
                  \A f \in NonEmpty(calls[c].req) :
                      u[ColumnOf(f)] = calls[c].req[f]

====
